---- MODULE Spec2Model ----
(***************************************************************************)
(* A model of the credit tracker of ComfyUI-ModalCredits                   *)
(* (src/js/creditTracker.js): the start-up sequence of CreditTracker.init, *)
(* the one-second tick of startTracking and the writes of saveBalance;    *)
(* of the battery widget of src/web/modal_credits.js; and of the server's *)
(* side of the balance record (the save time it writes, the reset         *)
(* endpoint, the detector of a changed account), which is not among the   *)
(* sources and is taken from its description.                             *)
(*                                                                         *)
(* Numbers.  JavaScript numbers are modelled as exact rationals held in    *)
(* integers.  Hourly prices are integers in 1/RateScale dollar per hour.   *)
(* The clock (Date.now()) is counted in units of 1/UnitsPerSecond second.  *)
(* Money is counted in FU, the cost of one price unit for one clock unit:  *)
(*   1 dollar = RateScale * SecondsPerHour * UnitsPerSecond FU             *)
(* so that costPerSecond * elapsed is the integer product of the hourly    *)
(* total and the clock difference.  An amount is a pair [whole, frac] of   *)
(* whole dollars and 0 <= frac < FUPerDollar, because 80 dollars in FU do  *)
(* not fit the integers of the model checker.                              *)
(***************************************************************************)
EXTENDS Integers, Sequences, FiniteSets, TLC

VARIABLES
    pc,                 \* position of init(): which call it awaits, or its end
    clock,              \* the last value read from Date.now() / new Date()
    config,             \* this.config
    balance,            \* this.balance
    gpuType,            \* this.gpuType
    gpuCount,           \* this.gpuCount
    costPerSecond,      \* this.costPerSecond
    lastUpdate,         \* this.lastUpdate
    cpuCores,           \* this.cpuCores
    memoryGB,           \* this.memoryGB
    gpuCostPerHour,     \* this.gpuCostPerHour
    cpuCostPerHour,     \* this.cpuCostPerHour
    memoryCostPerHour,  \* this.memoryCostPerHour
    display,            \* what updateDisplay last wrote (NULL before createDisplay)
    inflight,           \* the bodies of the POST /credit_tracker/balance requests
                        \* not yet answered, in the order of their issue
    durable,            \* the server's balance record (balance.json)
    startup,            \* outcome of each of the four start-up fetches
    lastTick,           \* what the last tick found and did (NULL before the first)
    ticks,              \* number of ticks executed
    saveLog,            \* for each of the last SaveWindow ticks: did it call saveBalance
    failedSaves,        \* number of saveBalance calls whose POST threw
    reset,              \* the last POST /credit_tracker/reset (NULL if none)
    detector,           \* the account in use and what the change detector did
    widget,             \* the battery widget of web/modal_credits.js
    polls               \* the calls of the widget's updateCredits: how many were
                        \* made, which are awaiting their answer, which one the
                        \* widget shows, how many were answered and how the last one ended

vars == <<pc, clock, config, balance, gpuType, gpuCount, costPerSecond, lastUpdate,
          cpuCores, memoryGB, gpuCostPerHour, cpuCostPerHour, memoryCostPerHour,
          display, inflight, durable, startup, lastTick, ticks, saveLog,
          failedSaves, reset, detector, widget, polls>>

----------------------------------------------------------------------------
(* Bounds of the model *)

MaxTicks == 3           \* ticks explored
MaxLongTicks == 10      \* ticks explored after a start-up without a server
MaxInFlight == 1        \* unanswered POSTs at a time
MaxStartClock == 1      \* the tracker is constructed up to MaxStartClock clock
                        \* units before a second that is due for a save
MaxPercentage == 100    \* the status endpoint reports 0..MaxPercentage percent
MaxLoads == 3           \* page loads that reach GET /credit_tracker/balance
MaxSwitches == 2        \* changes of the account in use
MaxPosts == 2           \* POSTs of a balance between page loads and after
MaxSaveTicks == 3       \* ticks explored with every POST left in flight
MaxPolls == 3           \* calls of the widget's updateCredits

(* Resolution of the model *)

UnitsPerSecond == 2     \* clock units per second (a unit is 500 ms)
RateScale == 10000      \* price units per dollar (prices have four decimals)

(* Program constants *)

SecondsPerHour == 3600
SavePeriod == 10        \* "Save to file every 10 seconds"
CPU_PER_CORE_HOUR == 473        \* 0.0473 dollar per vCPU core per hour
MEMORY_PER_GB_HOUR == 80        \* 0.0080 dollar per GB per hour
DefaultUnitRate == 10000        \* let costPerHour = 1.0
DefaultCpuCores == 12
DefaultMemoryGB == 32
DefaultStartingCents == 8000    \* starting_balance: 80.00
SaveWindow == SavePeriod        \* ticks in ten seconds of a one-second timer

FUPerDollar == RateScale * SecondsPerHour * UnitsPerSecond

NULL == [null |-> TRUE]

----------------------------------------------------------------------------
(* Amounts of money *)

Money(whole, frac) == [whole |-> whole, frac |-> frac]

Zero == Money(0, 0)

\* starting_balance is configured in cents
FromCents(c) == Money(c \div 100, (c % 100) * (FUPerDollar \div 100))

\* a - c for an amount a and a number c of FU (c may be negative)
MoneyMinus(a, c) ==
    LET q == c \div FUPerDollar
        r == c % FUPerDollar
    IN  IF a.frac >= r THEN Money(a.whole - q, a.frac - r)
        ELSE Money(a.whole - q - 1, a.frac + FUPerDollar - r)

MoneyLeq(a, b) == a.whole < b.whole \/ (a.whole = b.whole /\ a.frac <= b.frac)

MoneyLess(a, b) == MoneyLeq(a, b) /\ a # b

\* Math.max(0, a)
MaxZero(a) == IF MoneyLeq(Zero, a) THEN a ELSE Zero

\* percentage = (balance / starting_balance) * 100, as its integer part and
\* whether a fraction follows it (starting in cents, > 0; remaining >= 0)
Percentage(remaining, startingCents) ==
    LET n == 10000 * remaining.whole + (remaining.frac \div (FUPerDollar \div 10000))
    IN  [int  |-> n \div startingCents,
         frac |-> (n % startingCents # 0) \/ (remaining.frac % (FUPerDollar \div 10000) # 0)]

----------------------------------------------------------------------------
(* What the server can answer *)

Outcomes == {"ok", "nonok", "throw"}    \* response.ok, !response.ok, a rejected
                                        \* fetchApi or response.json()

\* the fallback of loadConfig
DefaultConfig ==
    [starting_balance   |-> DefaultStartingCents,
     gpu_costs_per_hour |-> << <<"NVIDIA H100", 39500>>,
                               <<"NVIDIA A100-SXM4-80GB", 25000>>,
                               <<"NVIDIA A100-SXM4-40GB", 21000>>,
                               <<"NVIDIA A10G", 11000>>,
                               <<"Tesla T4", 5900>> >>,
     gpu_count          |-> 1]

\* a config.json with two accelerators and a starting balance of one cent
SmallConfig ==
    [starting_balance   |-> 1,
     gpu_costs_per_hour |-> << <<"A100", 25000>>, <<"A10", 11000>> >>,
     gpu_count          |-> 2]

ServerConfigs == {SmallConfig}

GpuNames == {"NVIDIA A10G", "A100", "Custom-GPU-X"}

ComputeInfos == {[cpu_cores |-> 8, memory_gb |-> 16]}

\* balance.json when the tracker starts: absent, nearly empty, or 75.40
StoredBalances ==
    {NULL,
     [last_updated |-> 0, remaining_balance |-> Money(0, 30000)],
     [last_updated |-> 0, remaining_balance |-> FromCents(7540)]}

\* Date.now() in the constructor
StartClocks == {SavePeriod * UnitsPerSecond - k : k \in 1..MaxStartClock}

\* clock units between two reads of the clock by consecutive ticks: the timer is
\* nominally one second, fires early or late, and Date.now() can be set back
TickDeltas == {0 - 1, 1, UnitsPerSecond, UnitsPerSecond + 1}

\* the same for a timer that fires on time or late
LateDeltas == {UnitsPerSecond, UnitsPerSecond + 1}

\* clock units between the construction and the seeding of a balance
SeedDeltas == {0, 1}

----------------------------------------------------------------------------
(* Pure parts of the code *)

\* String.prototype.includes
Includes(s, t) ==
    \E i \in 1..(Len(s) - Len(t) + 1) : SubSeq(s, i, i + Len(t) - 1) = t

\* the accelerator name matches the key of a table entry, in either direction
Matches(name, key) == Includes(name, key) \/ Includes(key, name)

\* the loop with costPerHour starting at 0
RECURSIVE LookupCostNoDefault(_, _)
LookupCostNoDefault(table, name) ==
    IF table = <<>> THEN 0
    ELSE IF Matches(name, Head(table)[1])
         THEN Head(table)[2]
         ELSE LookupCostNoDefault(Tail(table), name)

\* the loop without its break: a later matching entry overrides an earlier one
RECURSIVE LookupCostLastMatch(_, _)
LookupCostLastMatch(table, name) ==
    IF table = <<>> THEN DefaultUnitRate
    ELSE IF Matches(name, table[Len(table)][1])
         THEN table[Len(table)][2]
         ELSE LookupCostLastMatch(SubSeq(table, 1, Len(table) - 1), name)

\* the loop of detectGPU over Object.entries(gpu_costs_per_hour)
RECURSIVE LookupCost(_, _)
LookupCost(table, name) ==
    IF table = <<>> THEN DefaultUnitRate
    ELSE IF Matches(name, Head(table)[1])
         THEN Head(table)[2]
         ELSE LookupCost(Tail(table), name)

\* totalCostPerHour of detectCompute
TotalCostPerHour(gpu, cpu, mem, count) == (gpu + cpu + mem) * count

\* costPerSecond = totalCostPerHour / 3600, held in 1/(RateScale*SecondsPerHour)
\* dollar per second: the division changes the unit, not the number
CostPerSecond(totalPerHour) == totalPerHour

\* elapsed taken in whole seconds: Math.floor((now - lastUpdate) / 1000)
CostOfWholeSeconds(cps, now, last) ==
    cps * ((now - last) \div UnitsPerSecond) * UnitsPerSecond

\* a fixed debit per tick, whatever time has passed
CostOfOneSecond(cps, now, last) == cps * UnitsPerSecond

\* cost = costPerSecond * elapsed in FU, elapsed = (now - lastUpdate) / 1000
Cost(cps, now, last) == cps * (now - last)

\* the debit without Math.max
DebitUnclamped(remaining, cost) == MoneyMinus(remaining, cost)

\* Math.max(0, remaining_balance - cost)
Debit(remaining, cost) == MaxZero(MoneyMinus(remaining, cost))

\* Math.floor(now / 1000) % 10 === 0
SaveDue(now) == (now \div UnitsPerSecond) % SavePeriod = 0

\* the object both branches of loadBalance build
SeedBalance(now, cfg) ==
    [last_updated |-> now, remaining_balance |-> FromCents(cfg.starting_balance)]

\* updateDisplay called before the debit: it shows the balance the tick found
RenderBeforeDebit(bal, cfg) ==
    [text  |-> balance.remaining_balance,
     width |-> Percentage(balance.remaining_balance, cfg.starting_balance)]

\* what updateDisplay writes: the text and the width of the bar
Render(bal, cfg) ==
    [text  |-> bal.remaining_balance,
     width |-> Percentage(bal.remaining_balance, cfg.starting_balance)]

----------------------------------------------------------------------------
(* The battery widget of web/modal_credits.js *)

\* the colours of updateDisplay
Green == "#4ade80"

Yellow == "#fbbf24"

Red == "#ef4444"

\* the widget as createElement builds it: 80%, "$80.00", no colour set yet, and
\* no currentData
createElement ==
    [width |-> DefaultStartingCents \div 100, text |-> DefaultStartingCents,
     colour |-> "unset", low |-> FALSE, currentData |-> NULL]

\* bodies of GET /modal_credits/status: a percentage of 80 dollars with the
\* remaining credits in cents, or a body without these fields
Statuses ==
    {[percentage |-> q, remaining_credits |-> q * (DefaultStartingCents \div 100)] :
        q \in 0..MaxPercentage}
    \cup {[gpu_type |-> "Unknown"]}

\* data.f || 0 for a number or a missing field
OrZero(data, f) == IF f \in DOMAIN data THEN data[f] ELSE 0

\* updateDisplay(data): the width of the fill, its colour, the text, the class
\* low-credits and currentData
updateDisplay(data) ==
    LET percentage == OrZero(data, "percentage")
        remaining  == OrZero(data, "remaining_credits")
    IN  [width  |-> percentage,
         colour |-> IF percentage > 50 THEN Green
                    ELSE IF percentage > 20 THEN Yellow
                    ELSE Red,
         text   |-> remaining,
         low    |-> percentage <= 20,
         currentData |-> data]

\* no call of updateCredits yet
PollsInit ==
    [issued |-> 0, pending |-> <<>>, shown |-> 0, answered |-> 0, last |-> "none"]

\* the calls awaiting their answer, without the i-th
StillPending(i) ==
    SubSeq(polls.pending, 1, i - 1) \o SubSeq(polls.pending, i + 1, Len(polls.pending))

\* updateCredits(), called at once and then every second by startUpdating, up to
\* its await: the GET /modal_credits/status is sent
updateCredits ==
    /\ polls.issued < MaxPolls
    /\ polls' = [polls EXCEPT !.issued = @ + 1,
                              !.pending = Append(@, polls.issued + 1)]
    /\ UNCHANGED <<pc, clock, startup, reset, detector, widget>>
    /\ UNCHANGED <<config, balance, gpuType, gpuCount, costPerSecond, lastUpdate,
                   cpuCores, memoryGB, gpuCostPerHour, cpuCostPerHour,
                   memoryCostPerHour, display>>
    /\ UNCHANGED <<lastTick, ticks, saveLog>>
    /\ UNCHANGED <<inflight, durable, failedSaves>>

\* updateCredits() after its awaits: one of the requests is answered, and a
\* body that came with response.ok is displayed
statusAnswered ==
    /\ \E i \in 1..Len(polls.pending), o \in Outcomes, data \in Statuses :
          /\ widget' = IF o = "ok" THEN updateDisplay(data) ELSE widget
          /\ polls' = [polls EXCEPT !.pending = StillPending(i),
                                    !.shown = IF o = "ok" THEN polls.pending[i] ELSE @,
                                    !.answered = @ + 1,
                                    !.last = o]
    /\ UNCHANGED <<pc, clock, startup, reset, detector>>
    /\ UNCHANGED <<config, balance, gpuType, gpuCount, costPerSecond, lastUpdate,
                   cpuCores, memoryGB, gpuCostPerHour, cpuCostPerHour,
                   memoryCostPerHour, display>>
    /\ UNCHANGED <<lastTick, ticks, saveLog>>
    /\ UNCHANGED <<inflight, durable, failedSaves>>

----------------------------------------------------------------------------
(* The account in use, for the change detector of the server *)

Fingerprints == {"acct-A", "acct-B"}

\* current: the fingerprint of the environment; held: the balance of the page's
\* tracker; fresh: a load has compared the fingerprints, and since then the
\* current one has not changed and the stored one has been the current one
DetectorInit ==
    [current |-> "acct-A", held |-> NULL, reseeds |-> 0, loads |-> 0,
     switches |-> 0, posts |-> 0, fresh |-> FALSE]

----------------------------------------------------------------------------
(* The state after the constructor *)

Init ==
    /\ pc = "loadConfig"
    /\ clock \in StartClocks
    /\ lastUpdate = clock
    /\ config = NULL
    /\ balance = NULL
    /\ gpuType = NULL
    /\ gpuCount = 1
    /\ costPerSecond = 0
    /\ cpuCores = 0
    /\ memoryGB = 0
    /\ gpuCostPerHour = 0
    /\ cpuCostPerHour = 0
    /\ memoryCostPerHour = 0
    /\ display = NULL
    /\ inflight = <<>>
    /\ durable \in StoredBalances
    /\ startup = [c \in {"config", "balance", "gpu", "compute"} |-> "none"]
    /\ lastTick = NULL
    /\ ticks = 0
    /\ saveLog = <<>>
    /\ failedSaves = 0
    /\ reset = NULL
    /\ detector = DetectorInit
    /\ widget = createElement
    /\ polls = PollsInit

trackerVars == <<config, balance, gpuType, gpuCount, costPerSecond, lastUpdate,
                 cpuCores, memoryGB, gpuCostPerHour, cpuCostPerHour,
                 memoryCostPerHour, display>>

tickVars == <<lastTick, ticks, saveLog>>

saveVars == <<inflight, durable, failedSaves>>

\* what the tracker of js/creditTracker.js never writes
otherVars == <<reset, detector, widget, polls>>

----------------------------------------------------------------------------
(* init(): loadConfig *)

\* this.config after loadConfig, for the outcome o of the fetch and the body c
ConfigAfter(o, c) ==
    CASE o = "ok"    -> c
      [] o = "nonok" -> DefaultConfig
      [] o = "throw" -> NULL

loadConfig ==
    /\ pc = "loadConfig"
    /\ \E o \in Outcomes, c \in ServerConfigs :
          /\ config' = ConfigAfter(o, c)
          /\ startup' = [startup EXCEPT !.config = o]
    /\ pc' = "loadBalance"
    /\ UNCHANGED <<clock, balance, gpuType, gpuCount, costPerSecond, lastUpdate,
                   cpuCores, memoryGB, gpuCostPerHour, cpuCostPerHour,
                   memoryCostPerHour, display>>
    /\ UNCHANGED tickVars
    /\ UNCHANGED saveVars
    /\ UNCHANGED otherVars

----------------------------------------------------------------------------
(* saveBalance(): the POST is issued with the balance as it is at the call *)

\* the body carries the amount as it is displayed: remaining_balance.toFixed(2),
\* here cut to whole cents
IssueDisplayed(bal) ==
    Append(inflight,
           [bal EXCEPT !.remaining_balance.frac =
                           (@ \div (FUPerDollar \div 100)) * (FUPerDollar \div 100)])

\* the requests in flight after a call of saveBalance with this.balance = bal:
\* JSON.stringify(this.balance) is evaluated in the call
Issue(bal) == Append(inflight, bal)

\* the requests in flight without the i-th
Answered(i) == SubSeq(inflight, 1, i - 1) \o SubSeq(inflight, i + 1, Len(inflight))

----------------------------------------------------------------------------
(* init(): loadBalance *)

\* whether the else branch of loadBalance persists the seeded balance
SeedIsSaved(o) == o = "nonok"

loadBalance ==
    /\ pc = "loadBalance"
    /\ \E o \in Outcomes, d \in SeedDeltas :
          /\ startup' = [startup EXCEPT !.balance = o]
          /\ IF o = "ok"
             THEN \* this.balance = await response.json()
                  /\ durable # NULL
                  /\ balance' = durable
                  /\ pc' = "detectGPU"
                  /\ UNCHANGED <<clock, inflight>>
             ELSE IF config = NULL
             THEN \* this.config.starting_balance throws in the else branch and
                  \* again in the catch block: loadBalance rejects, and init with it
                  /\ pc' = "rejected"
                  /\ clock' = clock + d
                  /\ UNCHANGED <<balance, inflight>>
             ELSE /\ clock' = clock + d
                  /\ balance' = SeedBalance(clock', config)
                  /\ IF SeedIsSaved(o)
                     THEN /\ inflight' = Issue(balance')
                          /\ pc' = "seedSave"
                     ELSE /\ pc' = "detectGPU"
                          /\ UNCHANGED inflight
    /\ UNCHANGED <<config, gpuType, gpuCount, costPerSecond, lastUpdate,
                   cpuCores, memoryGB, gpuCostPerHour, cpuCostPerHour,
                   memoryCostPerHour, display>>
    /\ UNCHANGED tickVars
    /\ UNCHANGED <<durable, failedSaves>>
    /\ UNCHANGED otherVars

----------------------------------------------------------------------------
(* init(): detectGPU *)

detectGPU ==
    /\ pc = "detectGPU"
    /\ \E o \in Outcomes, name \in GpuNames :
          /\ startup' = [startup EXCEPT !.gpu = o]
          /\ IF o = "ok" /\ config # NULL
             THEN /\ gpuType' = name
                  /\ gpuCount' = config.gpu_count
                  /\ gpuCostPerHour' = LookupCost(config.gpu_costs_per_hour, name)
             ELSE IF o = "nonok"
             THEN UNCHANGED <<gpuType, gpuCount, gpuCostPerHour>>
             ELSE \* the catch block, also reached from response.ok when
                  \* this.config.gpu_count throws on a null config
                  /\ gpuType' = "Unknown"
                  /\ gpuCostPerHour' = DefaultUnitRate
                  /\ UNCHANGED gpuCount
    /\ pc' = "detectCompute"
    /\ UNCHANGED <<clock, config, balance, costPerSecond, lastUpdate, cpuCores,
                   memoryGB, cpuCostPerHour, memoryCostPerHour, display>>
    /\ UNCHANGED tickVars
    /\ UNCHANGED saveVars
    /\ UNCHANGED otherVars

----------------------------------------------------------------------------
(* init(): detectCompute *)

detectCompute ==
    /\ pc = "detectCompute"
    /\ \E o \in Outcomes, info \in ComputeInfos :
          /\ startup' = [startup EXCEPT !.compute = o]
          /\ CASE o = "ok" ->
                    /\ cpuCores' = info.cpu_cores
                    /\ memoryGB' = info.memory_gb
                    /\ cpuCostPerHour' = info.cpu_cores * CPU_PER_CORE_HOUR
                    /\ memoryCostPerHour' = info.memory_gb * MEMORY_PER_GB_HOUR
               [] o = "nonok" ->
                    UNCHANGED <<cpuCores, memoryGB, cpuCostPerHour, memoryCostPerHour>>
               [] o = "throw" ->
                    /\ cpuCores' = DefaultCpuCores
                    /\ memoryGB' = DefaultMemoryGB
                    /\ cpuCostPerHour' = DefaultCpuCores * CPU_PER_CORE_HOUR
                    /\ memoryCostPerHour' = DefaultMemoryGB * MEMORY_PER_GB_HOUR
    /\ costPerSecond' = CostPerSecond(TotalCostPerHour(gpuCostPerHour, cpuCostPerHour',
                                                       memoryCostPerHour', gpuCount))
    /\ pc' = "createDisplay"
    /\ UNCHANGED <<clock, config, balance, gpuType, gpuCount, lastUpdate,
                   gpuCostPerHour, display>>
    /\ UNCHANGED tickVars
    /\ UNCHANGED saveVars
    /\ UNCHANGED otherVars

----------------------------------------------------------------------------
(* init(): createDisplay, then startTracking *)

createDisplay ==
    /\ pc = "createDisplay"
    /\ IF config = NULL
       THEN \* updateDisplay reads this.config.starting_balance: createDisplay
            \* throws, init rejects and startTracking is never called
            /\ pc' = "rejected"
            /\ UNCHANGED display
       ELSE /\ display' = Render(balance, config)
            /\ pc' = "running"
    /\ UNCHANGED <<clock, startup, config, balance, gpuType, gpuCount, costPerSecond,
                   lastUpdate, cpuCores, memoryGB, gpuCostPerHour, cpuCostPerHour,
                   memoryCostPerHour>>
    /\ UNCHANGED tickVars
    /\ UNCHANGED saveVars
    /\ UNCHANGED otherVars

----------------------------------------------------------------------------
(* startTracking(): the callback of setInterval *)

\* the log of the last SaveWindow ticks after one more
Logged(log, saved) ==
    IF Len(log) < SaveWindow THEN Append(log, saved)
    ELSE Append(Tail(log), saved)

\* what a tick at the instant now found: the balance and lastUpdate it read,
\* whether it called saveBalance and how many POSTs it left in flight, and of
\* the ticks so far the values the first one read and whether each read the
\* clock at or after lastUpdate
Found(now) ==
    [remaining   |-> balance.remaining_balance,
     stamp       |-> balance.last_updated,
     lastUpdate  |-> lastUpdate,
     saved       |-> SaveDue(now),
     inflight    |-> Len(inflight) + (IF SaveDue(now) THEN 1 ELSE 0),
     failedSaves |-> failedSaves,
     first       |-> IF lastTick = NULL
                     THEN [remaining |-> balance.remaining_balance,
                           lastUpdate |-> lastUpdate]
                     ELSE lastTick.first,
     monotone    |-> (lastTick = NULL \/ lastTick.monotone) /\ now >= lastUpdate]

\* the callback as an async function that awaits saveBalance: lastUpdate is
\* written when the POST is answered, and other ticks run before that
TickAwaitingSave(maxTicks, deltas) ==
    /\ pc = "running"
    /\ ticks < maxTicks
    /\ \E d \in deltas :
          LET now == clock + d
              cost == Cost(costPerSecond, now, lastUpdate)
              after == [balance EXCEPT
                           !.remaining_balance = Debit(balance.remaining_balance, cost),
                           !.last_updated = now]
          IN  /\ now >= 0
              /\ SaveDue(now) => Len(inflight) < MaxInFlight
              /\ clock' = now
              /\ balance' = after
              /\ display' = Render(after, config)
              /\ IF SaveDue(now)
                 THEN inflight' = Issue(after)
                 ELSE UNCHANGED inflight
              /\ lastUpdate' = IF SaveDue(now) THEN lastUpdate ELSE now
              /\ lastTick' = Found(now)
              /\ ticks' = ticks + 1
              /\ saveLog' = Logged(saveLog, SaveDue(now))
    /\ UNCHANGED <<pc, config, gpuType, gpuCount, costPerSecond, cpuCores, memoryGB,
                   gpuCostPerHour, cpuCostPerHour, memoryCostPerHour, startup>>
    /\ UNCHANGED <<durable, failedSaves>>
    /\ UNCHANGED otherVars

\* the callback with a flag that is set while a POST is unanswered: a tick that
\* finds it set returns at once
TickSkippedWhileSaving(maxTicks, deltas, maxInFlight) ==
    /\ pc = "running"
    /\ ticks < maxTicks
    /\ inflight = <<>>
    /\ \E d \in deltas :
          LET now == clock + d
              cost == Cost(costPerSecond, now, lastUpdate)
              after == [balance EXCEPT
                           !.remaining_balance = Debit(balance.remaining_balance, cost),
                           !.last_updated = now]
          IN  /\ now >= 0
              /\ SaveDue(now) => Len(inflight) < maxInFlight
              /\ clock' = now
              /\ balance' = after
              /\ display' = Render(after, config)
              /\ IF SaveDue(now)
                 THEN inflight' = Issue(after)
                 ELSE UNCHANGED inflight
              /\ lastUpdate' = now
              /\ lastTick' = Found(now)
              /\ ticks' = ticks + 1
              /\ saveLog' = Logged(saveLog, SaveDue(now))
    /\ UNCHANGED <<pc, config, gpuType, gpuCount, costPerSecond, cpuCores, memoryGB,
                   gpuCostPerHour, cpuCostPerHour, memoryCostPerHour, startup>>
    /\ UNCHANGED <<durable, failedSaves>>
    /\ UNCHANGED otherVars

\* the callback with a body that is serialized when the request goes out: the
\* POSTs in flight carry this.balance as the latest tick left it
TickSharingBody(maxTicks, deltas, maxInFlight) ==
    /\ pc = "running"
    /\ ticks < maxTicks
    /\ \E d \in deltas :
          LET now == clock + d
              cost == Cost(costPerSecond, now, lastUpdate)
              after == [balance EXCEPT
                           !.remaining_balance = Debit(balance.remaining_balance, cost),
                           !.last_updated = now]
              shared == [i \in 1..Len(inflight) |-> after]
          IN  /\ now >= 0
              /\ SaveDue(now) => Len(inflight) < maxInFlight
              /\ clock' = now
              /\ balance' = after
              /\ display' = Render(after, config)
              /\ IF SaveDue(now)
                 THEN inflight' = Append(shared, after)
                 ELSE inflight' = shared
              /\ lastUpdate' = now
              /\ lastTick' = Found(now)
              /\ ticks' = ticks + 1
              /\ saveLog' = Logged(saveLog, SaveDue(now))
    /\ UNCHANGED <<pc, config, gpuType, gpuCount, costPerSecond, cpuCores, memoryGB,
                   gpuCostPerHour, cpuCostPerHour, memoryCostPerHour, startup>>
    /\ UNCHANGED <<durable, failedSaves>>
    /\ UNCHANGED otherVars

\* the callback, for at most maxTicks ticks at the clock differences deltas and
\* with at most maxInFlight POSTs unanswered at a time
TickBounded(maxTicks, deltas, maxInFlight) ==
    /\ pc = "running"
    /\ ticks < maxTicks
    /\ \E d \in deltas :
          LET now == clock + d
              cost == Cost(costPerSecond, now, lastUpdate)
              after == [balance EXCEPT
                           !.remaining_balance = Debit(balance.remaining_balance, cost),
                           !.last_updated = now]
          IN  /\ now >= 0
              /\ SaveDue(now) => Len(inflight) < maxInFlight
              /\ clock' = now
              /\ balance' = after
              /\ display' = Render(after, config)
              /\ IF SaveDue(now)
                 THEN inflight' = Issue(after)
                 ELSE UNCHANGED inflight
              /\ lastUpdate' = now
              /\ lastTick' = Found(now)
              /\ ticks' = ticks + 1
              /\ saveLog' = Logged(saveLog, SaveDue(now))
    /\ UNCHANGED <<pc, config, gpuType, gpuCount, costPerSecond, cpuCores, memoryGB,
                   gpuCostPerHour, cpuCostPerHour, memoryCostPerHour, startup>>
    /\ UNCHANGED <<durable, failedSaves>>
    /\ UNCHANGED otherVars

TickWithin(maxTicks, deltas) == TickBounded(maxTicks, deltas, MaxInFlight)

Tick == TickWithin(MaxTicks, TickDeltas)

----------------------------------------------------------------------------
(* saveBalance(): the answer to a POST *)

\* init() awaits the saveBalance of loadBalance, and goes on when it returns
Resumed == IF pc = "seedSave" THEN "detectGPU" ELSE pc

\* clock units from the last reading of the tracker's clock to the server's
\* writing of the record
SaveLags == {0, 1}

\* the record the server writes for a body: the body, with last_updated set to
\* the time of the save
Persisted(body, savedAt) == [body EXCEPT !.last_updated = savedAt]

\* the server stored the body
SaveDone ==
    /\ \E i \in 1..Len(inflight), lag \in SaveLags :
          /\ inflight' = Answered(i)
          /\ durable' = Persisted(inflight[i], clock + lag)
    /\ pc' = Resumed
    /\ UNCHANGED <<clock, startup, failedSaves>>
    /\ UNCHANGED trackerVars
    /\ UNCHANGED tickVars
    /\ UNCHANGED otherVars

\* saveBalance without its try/catch: the rejection reaches the catch block of
\* loadBalance, which seeds the balance again
SaveFailedUncaught ==
    /\ \E i \in 1..Len(inflight) : inflight' = Answered(i)
    /\ failedSaves' = failedSaves + 1
    /\ IF pc = "seedSave"
       THEN \E d \in SeedDeltas :
               /\ clock' = clock + d
               /\ balance' = SeedBalance(clock', config)
               /\ pc' = "detectGPU"
       ELSE UNCHANGED <<clock, balance, pc>>
    /\ UNCHANGED <<startup, durable, config, gpuType, gpuCount, costPerSecond,
                   lastUpdate, cpuCores, memoryGB, gpuCostPerHour, cpuCostPerHour,
                   memoryCostPerHour, display>>
    /\ UNCHANGED tickVars
    /\ UNCHANGED otherVars

\* fetchApi threw: the catch block of saveBalance logs the error
SaveFailed ==
    /\ \E i \in 1..Len(inflight) : inflight' = Answered(i)
    /\ failedSaves' = failedSaves + 1
    /\ pc' = Resumed
    /\ UNCHANGED <<clock, startup, durable>>
    /\ UNCHANGED trackerVars
    /\ UNCHANGED tickVars
    /\ UNCHANGED otherVars

----------------------------------------------------------------------------

Next ==
    \/ loadConfig
    \/ loadBalance
    \/ detectGPU
    \/ detectCompute
    \/ createDisplay
    \/ Tick
    \/ SaveDone
    \/ SaveFailed

Spec == Init /\ [][Next]_vars

(* The start-up alone: init() up to startTracking, and the answer to the   *)
(* POST of a seeded balance.                                               *)

NextStartup ==
    \/ loadConfig
    \/ loadBalance
    \/ detectGPU
    \/ detectCompute
    \/ createDisplay
    \/ SaveDone
    \/ SaveFailed

SpecStartup == Init /\ [][NextStartup]_vars

(* A longer run of ticks after one start-up: the server has no config.json and *)
(* no balance.json, and the two detection calls throw.                         *)

LongTick == TickWithin(MaxLongTicks, LateDeltas)

NextLong ==
    \/ loadConfig /\ startup'.config = "nonok"
    \/ loadBalance /\ startup'.balance = "nonok"
    \/ detectGPU /\ startup'.gpu = "throw"
    \/ detectCompute /\ startup'.compute = "throw"
    \/ createDisplay
    \/ LongTick
    \/ SaveDone
    \/ SaveFailed

InitLong == Init /\ durable = NULL

SpecLong == InitLong /\ [][NextLong]_vars

(* A session with an external reset.  POST /credit_tracker/reset is       *)
(* handled by the server alone: it writes a record with the starting      *)
(* amount, the configured one or the one the caller supplies; the tracker *)
(* is not told.                                                           *)

ResetAmounts == {FromCents(DefaultStartingCents), FromCents(2500)}

Reset ==
    /\ pc = "running"
    /\ reset = NULL
    /\ \E amount \in ResetAmounts :
          /\ durable' = [last_updated |-> clock, remaining_balance |-> amount]
          /\ reset' = [amount |-> amount, ticks |-> ticks]
    /\ UNCHANGED <<pc, clock, startup, detector, widget, polls>>
    /\ UNCHANGED trackerVars
    /\ UNCHANGED tickVars
    /\ UNCHANGED <<inflight, failedSaves>>

NextReset ==
    \/ loadConfig /\ startup'.config = "nonok"
    \/ loadBalance
    \/ detectGPU /\ startup'.gpu = "throw"
    \/ detectCompute /\ startup'.compute = "throw"
    \/ createDisplay
    \/ Tick
    \/ SaveDone
    \/ SaveFailed
    \/ Reset

SpecReset == Init /\ [][NextReset]_vars

(* The change detector of the server, over several page loads.  A page    *)
(* load constructs a tracker, whose loadBalance gets the record from GET  *)
(* /credit_tracker/balance; the server compares the fingerprint of the    *)
(* account in use with the one in the record before it answers.  The      *)
(* tracker posts the balance it holds, with less remaining.               *)

\* owner_fingerprint of a record, "none" for a record without one
StoredOwner(d) ==
    IF "owner_fingerprint" \in DOMAIN d THEN d.owner_fingerprint ELSE "none"

checkFingerprint(current, stored) ==
    IF current # StoredOwner(stored) THEN "RESET" ELSE "KEEP"

\* a fresh record for the account with the fingerprint fp
Seeded(fp, now) ==
    [last_updated |-> now, remaining_balance |-> FromCents(DefaultStartingCents),
     owner_fingerprint |-> fp]

\* the reseed without the stamp of the new fingerprint
GetBalanceUnstamped ==
    /\ detector.loads < MaxLoads
    /\ IF durable = NULL
       THEN /\ durable' = Seeded(detector.current, clock)
            /\ detector' = [detector EXCEPT !.loads = @ + 1, !.fresh = TRUE,
                                            !.posts = 0, !.held = durable']
       ELSE IF checkFingerprint(detector.current, durable) = "RESET"
       THEN /\ durable' = Seeded(StoredOwner(durable), clock)
            /\ detector' = [detector EXCEPT !.loads = @ + 1, !.fresh = TRUE,
                                            !.posts = 0, !.held = durable',
                                            !.reseeds = @ + 1]
       ELSE /\ UNCHANGED durable
            /\ detector' = [detector EXCEPT !.loads = @ + 1, !.fresh = TRUE,
                                            !.posts = 0, !.held = durable]
    /\ UNCHANGED <<pc, clock, startup, reset, widget, polls>>
    /\ UNCHANGED trackerVars
    /\ UNCHANGED tickVars
    /\ UNCHANGED <<inflight, failedSaves>>

\* a page load whose GET /credit_tracker/balance is answered: the server seeds a
\* record if there is none, reseeds it if the fingerprint has changed, and the
\* tracker holds what it answers
GetBalance ==
    /\ detector.loads < MaxLoads
    /\ IF durable = NULL
       THEN /\ durable' = Seeded(detector.current, clock)
            /\ detector' = [detector EXCEPT !.loads = @ + 1, !.fresh = TRUE,
                                            !.posts = 0, !.held = durable']
       ELSE IF checkFingerprint(detector.current, durable) = "RESET"
       THEN /\ durable' = Seeded(detector.current, clock)
            /\ detector' = [detector EXCEPT !.loads = @ + 1, !.fresh = TRUE,
                                            !.posts = 0, !.held = durable',
                                            !.reseeds = @ + 1]
       ELSE /\ UNCHANGED durable
            /\ detector' = [detector EXCEPT !.loads = @ + 1, !.fresh = TRUE,
                                            !.posts = 0, !.held = durable]
    /\ UNCHANGED <<pc, clock, startup, reset, widget, polls>>
    /\ UNCHANGED trackerVars
    /\ UNCHANGED tickVars
    /\ UNCHANGED <<inflight, failedSaves>>

\* a page load whose GET /credit_tracker/balance fails: the tracker holds the
\* balance that loadBalance seeds, which has no fingerprint
LoadFails ==
    /\ detector.held # SeedBalance(clock, DefaultConfig)
    /\ detector' = [detector EXCEPT !.held = SeedBalance(clock, DefaultConfig),
                                    !.posts = 0]
    /\ UNCHANGED <<pc, clock, startup, reset, widget, polls>>
    /\ UNCHANGED trackerVars
    /\ UNCHANGED tickVars
    /\ UNCHANGED saveVars

\* the bodies the tracker can post: the balance it holds, with all its fields,
\* debited by nothing, by a dollar or by all that remains
PostBodies(held) ==
    {[held EXCEPT !.remaining_balance = r] :
        r \in {held.remaining_balance, Debit(held.remaining_balance, FUPerDollar),
               Zero}}

\* a POST of the tracker is stored: the record is replaced by the body
PostBalance ==
    /\ detector.held # NULL
    /\ detector.posts < MaxPosts
    /\ \E body \in PostBodies(detector.held), lag \in SaveLags :
          /\ durable' = Persisted(body, clock + lag)
          /\ detector' = [detector EXCEPT
                             !.held = body,
                             !.posts = @ + 1,
                             !.fresh = @ /\ StoredOwner(body) = detector.current]
    /\ UNCHANGED <<pc, clock, startup, reset, widget, polls>>
    /\ UNCHANGED trackerVars
    /\ UNCHANGED tickVars
    /\ UNCHANGED <<inflight, failedSaves>>

\* the user switches to another account
SwitchAccount ==
    /\ detector.switches < MaxSwitches
    /\ \E fp \in Fingerprints \ {detector.current} :
          detector' = [detector EXCEPT !.current = fp, !.switches = @ + 1,
                                       !.fresh = FALSE]
    /\ UNCHANGED <<pc, clock, startup, reset, widget, polls>>
    /\ UNCHANGED trackerVars
    /\ UNCHANGED tickVars
    /\ UNCHANGED saveVars

NextDetector ==
    \/ GetBalance
    \/ LoadFails
    \/ PostBalance
    \/ SwitchAccount

SpecDetector == Init /\ [][NextDetector]_vars

(* The ticks and their POSTs, every POST left unanswered for as long as the *)
(* server likes: after a start-up without config.json, in which the two    *)
(* detection calls throw, MaxSaveTicks ticks run, and the number of POSTs  *)
(* in flight is bounded by the number of ticks alone.                      *)

SaveTick == TickBounded(MaxSaveTicks, TickDeltas, MaxSaveTicks + 1)

NextSaves ==
    \/ loadConfig /\ startup'.config = "nonok"
    \/ loadBalance
    \/ detectGPU /\ startup'.gpu = "throw"
    \/ detectCompute /\ startup'.compute = "throw"
    \/ createDisplay
    \/ SaveTick
    \/ SaveDone
    \/ SaveFailed

SpecSaves == Init /\ [][NextSaves]_vars

(* The battery widget alone: it polls the status endpoint of the server, *)
(* which answers the requests in any order.                              *)

NextWidget ==
    \/ updateCredits
    \/ statusAnswered

SpecWidget == Init /\ [][NextWidget]_vars

----------------------------------------------------------------------------
(* Reading amounts without the operators of the model *)

\* the amount m is at most c FU
AtMostFU(m, c) ==
    \/ m.whole < c \div FUPerDollar
    \/ m.whole = c \div FUPerDollar /\ m.frac <= c % FUPerDollar

\* a - b in FU, for two amounts less than a few dollars apart
GapFU(a, b) == (a.whole - b.whole) * FUPerDollar + (a.frac - b.frac)

WellFormed(m) == m.whole \in Int /\ m.frac >= 0 /\ m.frac < FUPerDollar

Ticked == lastTick # NULL

\* elapsed of the last tick, in clock units, and its cost in FU
LastElapsed == clock - lastTick.lastUpdate

LastCost == costPerSecond * LastElapsed

RateComputed == startup.compute # "none"

----------------------------------------------------------------------------
(* C1: whenever a balance exists, remaining_balance is an amount >= 0:     *)
(* after the load or the seed and after every tick, also a tick whose      *)
(* debit exceeds what remains.                                             *)

C1_RemainingNeverNegative ==
    balance # NULL =>
        /\ WellFormed(balance.remaining_balance)
        /\ balance.remaining_balance.whole >= 0

\* a tick debited more than what remained, and left zero
C1_Witness ==
    /\ Ticked
    /\ lastTick.remaining # Zero
    /\ LastCost > 0
    /\ AtMostFU(lastTick.remaining, LastCost - 1)
    /\ balance.remaining_balance = Zero

(* C2: over ticks, remaining_balance never increases, whatever the clock   *)
(* reads relative to lastUpdate.                                           *)

C2_TickNeverIncreases ==
    Ticked => MoneyLeq(balance.remaining_balance, lastTick.remaining)

(* C3: the cost rate per second is (unit rate * accelerator count + cores  *)
(* * CPU rate + GB * memory rate) / 3600: the count multiplies the         *)
(* accelerator term only.                                                  *)

C3_CountScalesAcceleratorOnly ==
    RateComputed =>
        costPerSecond = gpuCostPerHour * gpuCount
                            + cpuCores * CPU_PER_CORE_HOUR
                            + memoryGB * MEMORY_PER_GB_HOUR

(* C4: a tick with elapsed e >= 0 and rate r >= 0 leaves                   *)
(* max(0, remaining_before - e * r), r being the rate computed at start-up.*)

C4_TickDebitsElapsedTimesRate ==
    Ticked /\ LastElapsed >= 0 /\ costPerSecond >= 0 =>
        IF AtMostFU(lastTick.remaining, LastCost)
        THEN balance.remaining_balance = Zero
        ELSE /\ WellFormed(balance.remaining_balance)
             /\ GapFU(lastTick.remaining, balance.remaining_balance) = LastCost

\* a tick over more than a second debited a part of what remained
C4_Witness ==
    /\ Ticked
    /\ LastElapsed > UnitsPerSecond
    /\ costPerSecond > 0
    /\ balance.remaining_balance # Zero
    /\ GapFU(lastTick.remaining, balance.remaining_balance) = LastCost

(* C5: of any 10 consecutive ticks exactly one calls saveBalance, whatever *)
(* the times at which the ticks fire.                                      *)

C5_OneSaveInTenTicks ==
    Len(saveLog) = SaveWindow =>
        Cardinality({i \in 1..SaveWindow : saveLog[i]}) = 1

(* C6: when the balance fetch is not OK or throws (a rejected fetch or a   *)
(* body that does not parse), loadBalance leaves a balance seeded with the *)
(* configured starting balance and has issued a persist of it, before the  *)
(* first tick.                                                             *)

C6_FailedLoadSeedsAndPersists ==
    [][pc = "loadBalance" /\ config # NULL /\ pc' # "loadBalance"
       /\ startup'.balance \in {"nonok", "throw"} =>
          /\ balance' # NULL
          /\ balance'.remaining_balance = FromCents(config.starting_balance)
          /\ inflight' = <<balance'>>
          /\ ticks' = 0]_vars

(* C7: a saveBalance whose POST throws is swallowed: it leaves the balance *)
(* and lastUpdate in memory as they were and the scheduler as it was;      *)
(* the ticks after it debit as before, and the next tick that is due for a *)
(* save issues a POST carrying the balance as that tick left it.           *)

C7_FailedSaveIsSwallowed ==
    [][/\ failedSaves' # failedSaves =>
            /\ balance' = balance
            /\ lastUpdate' = lastUpdate
            /\ costPerSecond' = costPerSecond
            /\ pc' = (IF pc = "seedSave" THEN "detectGPU" ELSE pc)
       /\ failedSaves > 0 /\ ticks' # ticks =>
            /\ lastUpdate' = clock'
            /\ IF AtMostFU(balance.remaining_balance,
                           costPerSecond * (clock' - lastUpdate))
               THEN balance'.remaining_balance = Zero
               ELSE GapFU(balance.remaining_balance, balance'.remaining_balance)
                        = costPerSecond * (clock' - lastUpdate)
            /\ (clock' \div UnitsPerSecond) % SavePeriod = 0 =>
                  inflight' = Append(inflight, balance')]_vars

\* the POST of a tick failed (none was issued before the ticks); a later tick
\* has debited the balance and issued a POST that carries it
C7_Witness ==
    /\ startup.balance = "ok"
    /\ Ticked
    /\ lastTick.failedSaves > 0
    /\ lastTick.saved
    /\ MoneyLess(balance.remaining_balance, lastTick.remaining)
    /\ inflight # <<>>
    /\ inflight[Len(inflight)] = balance

(* C8: when the config fetch is not OK or throws, loadConfig leaves the    *)
(* built-in default configuration: after loadConfig, config is never null. *)

C8_ConfigNeverNullAfterLoad ==
    /\ startup.config # "none" => config # NULL
    /\ startup.config \in {"nonok", "throw"} => config = DefaultConfig

(* C9: whatever the outcomes of the four start-up fetches, init does not   *)
(* end before startTracking: no start-up error keeps metering from         *)
(* starting.                                                               *)

C9_InitNeverRejects == pc # "rejected"

(* C10: when the accelerator-info or the compute-resources fetch is not OK *)
(* or throws, the rate is computed from the default allocation: 1.0 per    *)
(* hour for the accelerator, the default cores and memory for the rest.    *)

C10_FailedDetectionUsesDefaults ==
    RateComputed =>
        /\ startup.gpu \in {"nonok", "throw"} => gpuCostPerHour = DefaultUnitRate
        /\ startup.compute \in {"nonok", "throw"} =>
              /\ cpuCores = DefaultCpuCores
              /\ memoryGB = DefaultMemoryGB
              /\ cpuCostPerHour = DefaultCpuCores * CPU_PER_CORE_HOUR
              /\ memoryCostPerHour = DefaultMemoryGB * MEMORY_PER_GB_HOUR

(* C11: when the detected accelerator name matches no entry of the pricing *)
(* table (no key contains it, it contains no key), the unit rate is the    *)
(* default 1.0 per hour and the rate computation goes on without an error. *)

\* the entries of the configured table whose key and the detected name are
\* contained one in the other, read off the table itself
MatchingEntries ==
    {i \in 1..Len(config.gpu_costs_per_hour) :
        LET key == config.gpu_costs_per_hour[i][1]
        IN  \/ \E k \in 1..Len(gpuType) : \E l \in k..Len(gpuType) :
                  SubSeq(gpuType, k, l) = key
            \/ \E k \in 1..Len(key) : \E l \in k..Len(key) :
                  SubSeq(key, k, l) = gpuType}

\* detectGPU got the name from the server and looked it up
LookedUp == startup.gpu = "ok" /\ config # NULL

C11_UnmatchedNameUsesDefault ==
    LookedUp /\ MatchingEntries = {} =>
        /\ gpuCostPerHour = DefaultUnitRate
        /\ pc \in {"detectCompute", "createDisplay", "running"}
        /\ RateComputed => costPerSecond >= DefaultUnitRate * gpuCount

\* the rate was computed for a name that matches no entry of a table with entries
C11_Witness ==
    /\ LookedUp
    /\ config.gpu_costs_per_hour # <<>>
    /\ MatchingEntries = {}
    /\ RateComputed
    /\ gpuCostPerHour = DefaultUnitRate
    /\ costPerSecond > 0

(* C12: after an external reset during a running session the balance is  *)
(* based on the reseed: the first tick after the reset debits the amount  *)
(* of the reset, not the amount that was in memory, and the POST it       *)
(* issues carries the result.                                             *)

\* the amount of the reset less the debit of the last tick, not below zero
ResetLessLastCost == MaxZero(MoneyMinus(reset.amount, LastCost))

C12_ResetIsTheBasis ==
    reset # NULL /\ ticks = reset.ticks + 1 /\ LastElapsed >= 0 =>
        /\ balance.remaining_balance = ResetLessLastCost
        /\ lastTick.saved /\ inflight # <<>> =>
              inflight[Len(inflight)].remaining_balance = ResetLessLastCost

(* C13: a change of the owner fingerprint (the stored one differs from    *)
(* that of the account in use) makes the next load reseed the balance to  *)
(* the configured starting amount, once: the loads that follow with the   *)
(* same fingerprint, and the POSTs of the ticks, do not reseed.           *)

\* this step is a load that reached the server
IsLoad == detector'.loads # detector.loads

PersistOfCurrent ==
    /\ inflight # <<>>
    /\ inflight' = SubSeq(inflight, 1, Len(inflight) - 1)
    /\ failedSaves' = failedSaves
    /\ ticks' = ticks
    /\ IF Ticked
       THEN lastTick.saved /\ Len(inflight) = lastTick.inflight
       ELSE startup.balance = "nonok"

C15_ColourFollowsReadme ==
    widget.colour # "unset" =>
        /\ widget.width > 50 => widget.colour = Green /\ ~widget.low
        /\ widget.width >= 20 /\ widget.width <= 50 =>
              widget.colour = Yellow /\ ~widget.low
        /\ widget.width < 20 => widget.colour = Red /\ widget.low

(* C16: on every tick, the first after start-up included, the elapsed    *)
(* time that is debited is now minus the last-update instant stored with  *)
(* the balance (last_updated of the loaded or seeded balance), not the    *)
(* time since the tracker was constructed.                                *)

\* the debit of the last tick as the claim has it, in FU
StampCost == costPerSecond * (clock - lastTick.stamp)

C16_ElapsedSinceBalanceStamp ==
    Ticked /\ costPerSecond >= 0 /\ clock >= lastTick.stamp =>
        IF AtMostFU(lastTick.remaining, StampCost)
        THEN balance.remaining_balance = Zero
        ELSE GapFU(lastTick.remaining, balance.remaining_balance) = StampCost

(* C17: debiting does not depend on the number of ticks: after ticks at   *)
(* non-decreasing instants t1 <= ... <= tn following the reference        *)
(* instant t0 (lastUpdate as the constructor set it), and as long as the  *)
(* balance was not clamped at zero, the total debited is rate * (tn - t0).*)

C17_TotalDebitIsRateTimesSpan ==
    Ticked /\ lastTick.monotone /\ balance.remaining_balance # Zero =>
        GapFU(lastTick.first.remaining, balance.remaining_balance)
            = costPerSecond * (clock - lastTick.first.lastUpdate)

\* several ticks, one of them late and one early, have debited the span
C17_Witness ==
    /\ Ticked
    /\ ticks = MaxTicks
    /\ lastTick.monotone
    /\ costPerSecond > 0
    /\ balance.remaining_balance # Zero
    /\ clock - lastTick.first.lastUpdate # ticks * UnitsPerSecond
    /\ clock - lastTick.lastUpdate # UnitsPerSecond
    /\ GapFU(lastTick.first.remaining, balance.remaining_balance)
          = costPerSecond * (clock - lastTick.first.lastUpdate)

(* C18: the price looked up is that of the first entry, in the order of    *)
(* enumeration of the table, whose key is contained in the detected name   *)
(* or contains it (case-sensitive); a later matching entry never overrides *)
(* an earlier one.                                                         *)

C18_FirstMatchWins ==
    LookedUp =>
        \A i \in MatchingEntries :
            (\A j \in MatchingEntries : i <= j) =>
                gpuCostPerHour = config.gpu_costs_per_hour[i][2]

\* two entries with different prices match, and the price is the first one's
C18_Witness ==
    /\ LookedUp
    /\ \E i, j \in MatchingEntries :
          /\ i < j
          /\ \A k \in MatchingEntries : i <= k
          /\ config.gpu_costs_per_hour[i][2] # config.gpu_costs_per_hour[j][2]
          /\ gpuCostPerHour = config.gpu_costs_per_hour[i][2]

(* C19: the scheduler is Idle until the rate is computed and Running      *)
(* after: no tick executes while Idle, a tracker goes from Idle to        *)
(* Running exactly once (its init does not end in any other way), and     *)
(* once Running it never leaves Running.                                  *)

SchedulerState == IF pc = "running" THEN "Running" ELSE "Idle"

\* init() has returned or thrown
InitEnded == pc \in {"running", "rejected"}

C19_IdleThenRunningForGood ==
    [][/\ ticks' # ticks => SchedulerState = "Running" /\ RateComputed
       /\ SchedulerState = "Running" => SchedulerState' = "Running"
       /\ SchedulerState = "Idle" /\ SchedulerState' = "Running" =>
             RateComputed /\ ticks = 0
       /\ InitEnded' => SchedulerState' = "Running"]_vars

(* C20: a tick reads and writes the balance in one piece: every tick      *)
(* writes remaining_balance, last_updated and lastUpdate from the values  *)
(* the same tick read, one tick at a time, and no answer to a POST        *)
(* changes what the next tick reads.                                      *)

C20_TickIsAtomic ==
    [][/\ ticks' # ticks =>
             /\ ticks' = ticks + 1
             /\ lastTick'.remaining = balance.remaining_balance
             /\ lastTick'.lastUpdate = lastUpdate
             /\ lastUpdate' = clock'
             /\ balance'.last_updated = clock'
       /\ pc = "running" /\ ticks' = ticks =>
             balance' = balance /\ lastUpdate' = lastUpdate]_vars

\* a tick ran while the POST of an earlier tick was not yet answered
C20_Witness ==
    /\ Ticked
    /\ ticks >= 2
    /\ ~lastTick.saved
    /\ inflight # <<>>
    /\ inflight[1].last_updated < clock
    /\ lastUpdate = clock
    /\ balance.last_updated = clock

(* C21: saveBalance is fire-and-forget from the tick: a tick that calls it *)
(* ends (writes lastUpdate) with the POST still unanswered; while a POST   *)
(* is unanswered, and also if it is never answered, the next tick can      *)
(* fire, and a tick that fires debits as ever.                            *)

C21_PersistIsFireAndForget ==
    [][/\ ticks' # ticks /\ Len(inflight') > Len(inflight) =>
             /\ lastUpdate' = clock'
             /\ inflight'[Len(inflight')] = balance'
       /\ pc = "running" /\ ticks < MaxSaveTicks => ENABLED SaveTick
       /\ ticks' # ticks /\ inflight # <<>> =>
             /\ lastUpdate' = clock'
             /\ IF AtMostFU(balance.remaining_balance,
                            costPerSecond * (clock' - lastUpdate))
                THEN balance'.remaining_balance = Zero
                ELSE GapFU(balance.remaining_balance, balance'.remaining_balance)
                         = costPerSecond * (clock' - lastUpdate)]_vars

\* a POST of an earlier tick is still unanswered after two more ticks, each of
\* which has debited
C21_Witness ==
    /\ Ticked
    /\ ticks = MaxSaveTicks
    /\ startup.balance = "ok"
    /\ inflight # <<>>
    /\ inflight[1].remaining_balance = MaxZero(MoneyMinus(lastTick.first.remaining,
                                           costPerSecond * (inflight[1].last_updated
                                                            - lastTick.first.lastUpdate)))
    /\ inflight[1].last_updated < lastTick.lastUpdate
    /\ MoneyLess(lastTick.remaining, inflight[1].remaining_balance)
    /\ MoneyLess(balance.remaining_balance, lastTick.remaining)

(* C22: every tick refreshes the display after its debit, with the pair   *)
(* (remaining, percentage): remaining is the balance the debit left and   *)
(* percentage = 100 * remaining / starting, for the starting balance of   *)
(* the configuration.                                                     *)

\* the remaining balance in 1/10000 dollar, rounded down, which is 100 *
\* remaining in cents
ShownTimes100 == 10000 * balance.remaining_balance.whole
                    + balance.remaining_balance.frac \div (FUPerDollar \div 10000)

C22_DisplayShowsDebitedPair ==
    Ticked =>
        /\ display.text = balance.remaining_balance
        /\ display.width.int * config.starting_balance <= ShownTimes100
        /\ ShownTimes100 < (display.width.int + 1) * config.starting_balance
        /\ display.width.frac <=>
              \/ ShownTimes100 # display.width.int * config.starting_balance
              \/ balance.remaining_balance.frac % (FUPerDollar \div 10000) # 0

\* a tick has debited a balance of a configuration other than the default one,
\* and the display shows a part of the starting balance
C22_Witness ==
    /\ Ticked
    /\ config.starting_balance # DefaultStartingCents
    /\ MoneyLess(balance.remaining_balance, lastTick.remaining)
    /\ display.text = balance.remaining_balance
    /\ display.width.int > 0
    /\ display.width.int < 100

(* C23: several POSTs can be unanswered at once, and once all of them are *)
(* answered the record of the server is the snapshot issued last: a POST  *)
(* issued earlier never replaces the record of one issued later.  Here:   *)
(* the last tick issued a POST, every POST has been stored and none has   *)
(* failed; then the record has the remaining balance of the last tick.    *)

C23_LastIssuedIsStored ==
    Ticked /\ lastTick.saved /\ inflight = <<>> /\ failedSaves = 0 =>
        durable.remaining_balance = balance.remaining_balance

(* C24: whenever the scheduler is Running the cost rate is strictly       *)
(* positive, whatever the outcomes of the two detection calls, so that a  *)
(* tick over a positive elapsed time strictly decreases a positive        *)
(* balance (and fair ticking with advancing time brings it to zero).      *)

C24_RunningRateIsPositive ==
    /\ pc = "running" => costPerSecond > 0
    /\ Ticked /\ LastElapsed > 0 /\ lastTick.remaining # Zero =>
          MoneyLess(balance.remaining_balance, lastTick.remaining)

(* C25: the body of a POST is the balance in memory as the issuing tick   *)
(* left it, after its debit and its stamp of last_updated: saveBalance    *)
(* takes it within the tick.  No later tick alters the body of a POST in  *)
(* flight, and what the server stores is a body as it was issued: the     *)
(* record has the fields and the remaining_balance of the body            *)
(* (last_updated is the server's to set, see C14).                        *)

\* this step is a tick that calls saveBalance
TickSaves == ticks' # ticks /\ (clock' \div UnitsPerSecond) % SavePeriod = 0

C25_SnapshotTakenInTick ==
    [][/\ TickSaves =>
             /\ balance'.last_updated = clock'
             /\ lastUpdate' = clock'
             /\ inflight' = inflight \o <<balance'>>
       /\ ticks' # ticks /\ ~TickSaves => inflight' = inflight
       /\ durable' # durable =>
             \E i \in 1..Len(inflight) :
                /\ inflight' = SubSeq(inflight, 1, i - 1)
                                   \o SubSeq(inflight, i + 1, Len(inflight))
                /\ DOMAIN durable' = DOMAIN inflight[i]
                /\ durable'.remaining_balance = inflight[i].remaining_balance]_vars

\* the POST of the first tick was stored after a later tick had debited the
\* balance further: the record has what the first tick left, not what is in
\* memory
C25_Witness ==
    /\ Ticked
    /\ ticks >= 2
    /\ startup.balance = "ok"
    /\ failedSaves = 0
    /\ inflight = <<>>
    /\ costPerSecond > 0
    /\ durable # NULL
    /\ MoneyLess(balance.remaining_balance, durable.remaining_balance)
    /\ MoneyLess(durable.remaining_balance, lastTick.first.remaining)
    /\ \E d \in TickDeltas :
          durable.remaining_balance
              = MaxZero(MoneyMinus(lastTick.first.remaining, costPerSecond * d))

(* C26: the widget polls without waiting for the answers of earlier       *)
(* polls; what it displays always comes from the poll issued last among   *)
(* those answered (the answer to an older poll never replaces the data of *)
(* a newer one), and a poll that fails or is answered not OK leaves the   *)
(* displayed values and currentData as they were.                         *)

C26_NewestAnsweredPollIsShown ==
    [][/\ polls'.shown >= polls.shown
       /\ polls'.answered # polls.answered /\ polls'.last # "ok" =>
             widget' = widget]_vars

(* C27: every percentage that updateDisplay hands to the display (the     *)
(* width of the bar, and with it the amount of the colour mix) lies in    *)
(* 0..100, for every balance that the load can return and every           *)
(* configured starting balance.                                           *)

C27_PercentageWithinRange ==
    display # NULL =>
        /\ display.width.int >= 0
        /\ display.width.int <= 100
        /\ display.width.int = 100 => ~display.width.frac

====
